---- MODULE Spec2Model ----
(***************************************************************************)
(* Discount decision pipeline (SimpleDiscountService), the supervision     *)
(* queue (SupervisionQueueService, Show.get_remaining_discounts), the      *)
(* review workflow on discount requests (SupervisionService) and the       *)
(* candidate searches of the agent and of the prefilter.                   *)
(*                                                                         *)
(* Store calls are the atomic steps: every query and every commit of the   *)
(* source is one step of the model, and pipeline executions interleave     *)
(* between them, as sessions of several workers on one database do.        *)
(***************************************************************************)
EXTENDS Integers, Sequences, FiniteSets, TLC

\* ---------------------------------------------------------------- bounds
NumProcs == 2        \* pipeline executions
MaxRid == 2          \* request ids 1..MaxRid
MaxRequests == 2     \* rows of the discount request table
NumSups == 2         \* supervisors sending emails at the same time

Procs == 1..NumProcs
Sups == 1..NumSups
Rids == 1..MaxRid

\* ------------------------------------------------------------ store data
None == 0            \* NULL / None

\* users table: ana is in good standing, beto has neither subscription nor
\* fees, caro owes fees, dani has no subscription, dora is in good standing
\* and has a recent discount request; "nadie" is not registered.
Emails == {"ana", "beto", "caro", "dani", "dora", "nadie"}
\* the senders of the requests the pipeline executions receive
Senders == {"ana", "beto"}
Registered == {"ana", "beto", "caro", "dani", "dora"}

subscription_active(u) == u \in {"ana", "caro", "dora"}
monthly_fee_current(u) == u \in {"ana", "dani", "dora"}

\* shows table: shows 1 and 2 are active, show 3 is not
Shows == {1, 2, 3}
active(s) == s \in {1, 2}
max_discounts(s) == IF s = 1 THEN 1 ELSE 2
ActiveShows == {s \in Shows : active(s)}

\* show descriptions a request can carry, with the similarity
\* fuzz.partial_ratio gives them against each show's searchable text
\* ("uno" is the text of show 1; "ambos" resembles every show, the
\* inactive one included; "nada" resembles none)
Descriptions == {"uno", "ambos", "nada"}
similarity(d, s) ==
  CASE d = "uno"   -> (IF s = 1 THEN 100 ELSE 20)
    [] d = "ambos" -> 80
    [] OTHER       -> 10

MatchThreshold == 70
ClearWinnerScore == 90
ClearWinnerMargin == 15

Statuses == {"pending", "approved", "rejected", "sent"}
\* mutant: a rejected item keeps its reservation
ReservingStatuses_WithRejected == {"pending", "approved", "rejected", "sent"}

\* the statuses Show.get_remaining_discounts counts as reserved
ReservingStatuses == {"pending", "approved", "sent"}
Reviewers == {"sup"}

\* ---------------------------------------------------------------- state
VARIABLES
  queue,      \* supervision_queue table: sequence of rows, id = index
  requests,   \* discount request table: sequence of rows, id = index
  pc,         \* position of each pipeline execution
  req,        \* request_data of each pipeline execution
  avail,      \* available_shows collected so far by _find_matching_shows
  scanned,    \* shows whose remaining discounts were already counted
  data,       \* queue_data handed to add_to_queue
  outcome,    \* value returned by process_discount_request
  lastOp,     \* last supervisor call and its return value
  delivered,  \* per discount request, the emails the email service sent
  sending,    \* per supervisor, the discount request whose email is being sent
  prefilter_result, \* last answer of DiscountPreFilter.validate_request
  candidates, \* last list of shows a candidate search returned
  call,       \* last call of a function without effects: name, arguments, result
  matcher,    \* the execution of IntelligentShowMatcher.process_validated_request
  listing,    \* creation times of the listed rows, the clock, and what listings returned
  sessions    \* active_sessions of the auth module, the clock, and the last call on it

vars == <<queue, requests, pc, req, avail, scanned, data, outcome, lastOp,
          delivered, sending, prefilter_result, candidates, call, matcher, listing, sessions>>
toolVars == <<candidates, call, matcher, listing, sessions>>
pipeVars == <<pc, req, avail, scanned, data, outcome>>
reviewVars == <<requests, delivered, sending, prefilter_result>>

NoReq == [user_email |-> "nadie", request_id |-> 0, show_description |-> "nada"]
NoData == [decision_type |-> "none", decision_source |-> "none", show_id |-> None,
           email_content |-> "none"]
NoOutcome == [decision |-> "none", queue_id |-> None, status |-> "none", reasoning |-> "none"]
NoOp == [op |-> "none", id |-> 0, ok |-> FALSE]

\* ------------------------------------------------- Show.get_remaining_discounts
reserved_count(q, s) ==
  Cardinality({i \in 1..Len(q) : q[i].show_id = s /\ q[i].status \in ReservingStatuses})

get_remaining_discounts(q, s) == max_discounts(s) - reserved_count(q, s)

\* ------------------------------------------ SupervisionQueueService helpers
_generate_email_subject(decision_type) ==
  CASE decision_type = "approved" -> "subj_approved"
    [] decision_type = "rejected" -> "subj_rejected"
    [] decision_type = "needs_clarification" -> "subj_clarification"
    [] OTHER -> "subj_generic"

NewQueueItem(r, d) ==
  [request_id |-> r.request_id,
   user_email |-> r.user_email,
   show_id |-> d.show_id,
   decision_type |-> d.decision_type,
   decision_source |-> d.decision_source,
   email_subject |-> _generate_email_subject(d.decision_type),
   email_content |-> d.email_content,
   status |-> "pending",
   email_delivery_status |-> "none",
   reviewed_at |-> FALSE,
   reviewed_by |-> "none",
   supervisor_notes |-> "none"]

\* mutant: the request_id column without its unique constraint
RequestIdTaken_NotUnique(q, rid) == FALSE

\* the unique constraint on supervision_queue.request_id
RequestIdTaken(q, rid) == \E i \in 1..Len(q) : q[i].request_id = rid

\* ------------------------------------------------------------ seeded rows
\* populate_database.py inserts reviewed rows (approved, rejected, sent)
SeedItem(st) ==
  [request_id |-> 0,
   user_email |-> "dora",
   show_id |-> 2,
   decision_type |-> IF st = "rejected" THEN "rejected" ELSE "approved",
   decision_source |-> "prefilter_template",
   email_subject |-> "subj_seed",
   email_content |-> "seed",
   status |-> st,
   email_delivery_status |-> IF st = "sent" THEN "delivered" ELSE "none",
   reviewed_at |-> TRUE,
   reviewed_by |-> "sup",
   supervisor_notes |-> "seed"]

\* a discount request row as DiscountService.process_request leaves it
NewRequest(u, appr) ==
  [user_email |-> u,
   approved |-> appr,
   email_draft |-> "draft",
   human_modified_email |-> "none",
   email_sent |-> FALSE,
   human_reviewed |-> FALSE,
   human_reviewer |-> "none",
   human_notes |-> "none",
   reviewed_at |-> FALSE,
   human_approved |-> FALSE,
   status |-> "pending"]

RequestIds == 1..MaxRequests
NoValidation == [user_email |-> "none", reason |-> "none"]
NoCandidates == [tool |-> "none", description |-> "nada", shows |-> <<>>]
NoCall == [fn |-> "none"]
MaxItems == 3
MaxClock == 2
NoListing == [clock |-> 1, created_at |-> [i \in 1..MaxItems |-> 0],
              page |-> <<>>, seen |-> {}]
NoResponse == [success |-> FALSE, decision |-> "none", status |-> "none"]
MaxTokens == 2
MaxNow == 4
SessionTokens == 1..MaxTokens
\* the 24 hours a session lasts, in ticks of the clock
SessionTTL == 2
NoSessions == [active_sessions |-> [t \in SessionTokens |-> 0],
               created |-> [t \in SessionTokens |-> 0], now |-> 1,
               issued |-> {}, logged_out |-> {},
               last |-> [op |-> "none", token |-> 0, result |-> FALSE]]
NoMatcher == [pc |-> "idle", user_email |-> "nadie", request_id |-> None,
              description |-> "nada",
              analysis |-> "none", failed |-> FALSE, analyze_calls |-> 0,
              email_calls |-> 0, status |-> "none", email |-> "none",
              response |-> NoResponse]

Init ==
  /\ queue = <<SeedItem("sent")>>
  /\ requests = <<NewRequest("dora", TRUE)>>
  /\ pc = [p \in Procs |-> "idle"]
  /\ req = [p \in Procs |-> NoReq]
  /\ avail = [p \in Procs |-> {}]
  /\ scanned = [p \in Procs |-> {}]
  /\ data = [p \in Procs |-> NoData]
  /\ outcome = [p \in Procs |-> NoOutcome]
  /\ lastOp = NoOp
  /\ delivered = [i \in RequestIds |-> 0]
  /\ sending = [v \in Sups |-> 0]
  /\ prefilter_result = NoValidation
  /\ candidates = NoCandidates
  /\ call = NoCall
  /\ matcher = NoMatcher
  /\ listing = NoListing
  /\ sessions = NoSessions

\* ------------------------------------------------------------- prefilters
\* DiscountRequest rows of the user with request_date inside the last 24 hours
\* (every row of the model is recent)
HasRecentRequest(rq, u) == \E i \in 1..Len(rq) : rq[i].user_email = u

_run_prefilter_validations(rq, u) ==
  IF u \notin Registered THEN "user_not_found"
  ELSE IF ~subscription_active(u) THEN "subscription_inactive"
  ELSE IF ~monthly_fee_current(u) THEN "payment_overdue"
  ELSE IF HasRecentRequest(rq, u) THEN "duplicate_request"
  ELSE "ok"

\* ---------------------------------------------------------- show matching
\* the matching on the similarity scores sc (show -> 0..100) of the shows av
MatchesBy(sc, av) == {s \in av : sc[s] >= MatchThreshold}

\* position of show s after the stable sort by similarity, highest first
RankBy(sc, m, s) ==
  Cardinality({t \in m : sc[t] > sc[s] \/ (sc[t] = sc[s] /\ t < s)})

NthBy(sc, m, n) == CHOOSE s \in m : RankBy(sc, m, s) = n

\* mutant: the best score of 90 or more wins whatever the second score
match_scores_NoMargin(sc, av) ==
  LET m == MatchesBy(sc, av) IN
  IF av = {} \/ m = {} THEN [match_type |-> "no_match", show |-> None]
  ELSE IF Cardinality(m) = 1 \/ sc[NthBy(sc, m, 0)] >= ClearWinnerScore
    THEN [match_type |-> "single_match", show |-> NthBy(sc, m, 0)]
  ELSE [match_type |-> "multiple_matches", show |-> None]

\* the decision of _find_matching_shows once the scores are computed
match_scores(sc, av) ==
  LET m == MatchesBy(sc, av) IN
  IF av = {} \/ m = {} THEN [match_type |-> "no_match", show |-> None]
  ELSE IF Cardinality(m) = 1
    THEN [match_type |-> "single_match", show |-> NthBy(sc, m, 0)]
  ELSE LET top == NthBy(sc, m, 0)
           second == NthBy(sc, m, 1)
       IN IF sc[top] >= ClearWinnerScore
             /\ sc[top] - sc[second] >= ClearWinnerMargin
          THEN [match_type |-> "single_match", show |-> top]
          ELSE [match_type |-> "multiple_matches", show |-> None]

\* the scores of a description against every show
ScoresOf(d) == [s \in Shows |-> similarity(d, s)]

Matches(d, av) == MatchesBy(ScoresOf(d), av)

Rank(d, m, s) == RankBy(ScoresOf(d), m, s)

NthMatch(d, m, n) == NthBy(ScoresOf(d), m, n)

\* result of _find_matching_shows once available_shows is known
_find_matching_shows(d, av) == match_scores(ScoresOf(d), av)

\* ------------------------------------------------- queue_data per handler
\* mutant: the rejection email data keeping a show
RejectionData_KeepsShow(reason_code, source) ==
  [decision_type |-> "rejected", decision_source |-> source, show_id |-> 1,
   email_content |-> reason_code]

RejectionData(reason_code, source) ==
  [decision_type |-> "rejected", decision_source |-> source, show_id |-> None,
   email_content |-> reason_code]

\* mutant: the approval email data without the show of the reservation
ApprovalData_NoShow(s) ==
  [decision_type |-> "approved", decision_source |-> "template_approval",
   show_id |-> None, email_content |-> "approval"]

ApprovalData(s) ==
  [decision_type |-> "approved", decision_source |-> "template_approval",
   show_id |-> s, email_content |-> "approval"]

ClarificationData ==
  [decision_type |-> "needs_clarification", decision_source |-> "template_clarification",
   show_id |-> None, email_content |-> "clarification"]

\* mutant: no show found answered with the clarification email
NoShowFoundData_Clarification == ClarificationData

\* queue_data of _handle_no_show_found
NoShowFoundData == RejectionData("no_discounts_available", "template_no_match")

\* queue_data of _handle_no_discounts_available
NoDiscountsData == RejectionData("no_discounts_available", "template_no_discounts")

\* ------------------------------------------------------ pipeline actions
\* a request arrives; executions are started in the order of their index
Start(p) ==
  /\ pc[p] = "idle"
  /\ \A o \in Procs : o < p => pc[o] # "idle"
  /\ \E u \in Senders, r \in Rids, d \in Descriptions :
       req' = [req EXCEPT ![p] = [user_email |-> u, request_id |-> r,
                                   show_description |-> d]]
  /\ pc' = [pc EXCEPT ![p] = "prefilter"]
  /\ UNCHANGED <<queue, avail, scanned, data, outcome, lastOp>> /\ UNCHANGED reviewVars /\ UNCHANGED toolVars

\* step 1 of process_discount_request
Prefilter(p) ==
  /\ pc[p] = "prefilter"
  /\ LET reason == _run_prefilter_validations(requests, req[p].user_email) IN
       IF reason # "ok"
       THEN /\ data' = [data EXCEPT ![p] = RejectionData(reason, "prefilter_template")]
            /\ pc' = [pc EXCEPT ![p] = "enqueue"]
       ELSE /\ data' = data
            /\ pc' = [pc EXCEPT ![p] = "scan"]
  /\ UNCHANGED <<queue, req, avail, scanned, outcome, lastOp>> /\ UNCHANGED reviewVars /\ UNCHANGED toolVars

\* _find_matching_shows: one count query per active show, in table order;
\* after the last one the match is decided and the handler is entered
ScanShow(p) ==
  /\ pc[p] = "scan"
  /\ LET todo == ActiveShows \ scanned[p]
         s == CHOOSE x \in todo : \A y \in todo : x <= y
         av == IF get_remaining_discounts(queue, s) > 0
               THEN avail[p] \cup {s} ELSE avail[p]
         m == _find_matching_shows(req[p].show_description, av)
     IN /\ todo # {}
        /\ scanned' = [scanned EXCEPT ![p] = @ \cup {s}]
        /\ avail' = [avail EXCEPT ![p] = av]
        /\ IF todo # {s}
           THEN UNCHANGED <<pc, data>>
           ELSE CASE m.match_type = "single_match" ->
                       /\ pc' = [pc EXCEPT ![p] = "approval"]
                       /\ data' = [data EXCEPT ![p] = ApprovalData(m.show)]
                  [] m.match_type = "multiple_matches" ->
                       /\ pc' = [pc EXCEPT ![p] = "enqueue"]
                       /\ data' = [data EXCEPT ![p] = ClarificationData]
                  [] OTHER ->
                       /\ pc' = [pc EXCEPT ![p] = "enqueue"]
                       /\ data' = [data EXCEPT ![p] = NoShowFoundData]
  /\ UNCHANGED <<queue, req, outcome, lastOp>> /\ UNCHANGED reviewVars /\ UNCHANGED toolVars

\* _handle_approval up to the email: the double check of the remaining discounts
HandleApproval(p) ==
  /\ pc[p] = "approval"
  /\ LET remaining == get_remaining_discounts(queue, data[p].show_id) IN
       IF remaining <= 0
       THEN data' = [data EXCEPT ![p] = NoDiscountsData]
       ELSE data' = data
  /\ pc' = [pc EXCEPT ![p] = "enqueue"]
  /\ UNCHANGED <<queue, req, avail, scanned, outcome, lastOp>> /\ UNCHANGED reviewVars /\ UNCHANGED toolVars

\* the execution returns: its locals are gone
Return(p) ==
  /\ pc' = [pc EXCEPT ![p] = "done"]
  /\ avail' = [avail EXCEPT ![p] = {}]
  /\ scanned' = [scanned EXCEPT ![p] = {}]
  /\ data' = [data EXCEPT ![p] = NoData]

\* _handle_error: the reasoning carries the message of the exception
_handle_error(error_msg) ==
  [decision |-> "error", queue_id |-> 0, status |-> "error", reasoning |-> error_msg]

\* add_to_queue and the return of the handler that called it; a request id
\* already in the table violates the unique constraint, the exception reaches
\* process_discount_request and _handle_error answers
AddToQueue(p) ==
  /\ pc[p] = "enqueue"
  /\ IF RequestIdTaken(queue, req[p].request_id)
     THEN /\ queue' = queue
          /\ outcome' = [outcome EXCEPT ![p] = _handle_error("integrity_error")]
     ELSE /\ queue' = Append(queue, NewQueueItem(req[p], data[p]))
          /\ outcome' = [outcome EXCEPT ![p] =
                           [decision |-> data[p].decision_type,
                            queue_id |-> Len(queue) + 1,
                            status |-> "queued_for_supervision",
                            reasoning |-> data[p].email_content]]
  /\ Return(p)
  /\ UNCHANGED <<req, lastOp>> /\ UNCHANGED reviewVars /\ UNCHANGED toolVars

\* a store call of the pipeline raises: the except clause of
\* process_discount_request returns _handle_error's answer
StoreFault(p) ==
  /\ pc[p] \in {"prefilter", "scan", "approval", "enqueue"}
  /\ outcome' = [outcome EXCEPT ![p] = _handle_error("store_fault")]
  /\ Return(p)
  /\ UNCHANGED <<queue, req, lastOp>> /\ UNCHANGED reviewVars /\ UNCHANGED toolVars

\* ----------------------------------------------------- supervisor actions
ItemIds == 1..(NumProcs + 2)

\* mutant: approve_item that writes the status alone
approve_item_StatusOnly(id, reviewer) ==
  /\ id \in ItemIds
  /\ IF id > Len(queue)
     THEN /\ queue' = queue
          /\ lastOp' = [op |-> "approve_item", id |-> id, ok |-> FALSE]
     ELSE /\ queue' = [queue EXCEPT ![id] = [@ EXCEPT !.status = "approved"]]
          /\ lastOp' = [op |-> "approve_item", id |-> id, ok |-> TRUE]
  /\ UNCHANGED pipeVars /\ UNCHANGED reviewVars /\ UNCHANGED toolVars

approve_item(id, reviewer) ==
  /\ id \in ItemIds
  /\ IF id > Len(queue)
     THEN /\ queue' = queue
          /\ lastOp' = [op |-> "approve_item", id |-> id, ok |-> FALSE]
     ELSE /\ queue' = [queue EXCEPT ![id] =
                         [@ EXCEPT !.status = "approved", !.reviewed_at = TRUE,
                                   !.reviewed_by = reviewer, !.supervisor_notes = "notes"]]
          /\ lastOp' = [op |-> "approve_item", id |-> id, ok |-> TRUE]
  /\ UNCHANGED pipeVars /\ UNCHANGED reviewVars /\ UNCHANGED toolVars

reject_item(id, reviewer) ==
  /\ id \in ItemIds
  /\ IF id > Len(queue)
     THEN /\ queue' = queue
          /\ lastOp' = [op |-> "reject_item", id |-> id, ok |-> FALSE]
     ELSE /\ queue' = [queue EXCEPT ![id] =
                         [@ EXCEPT !.status = "rejected", !.reviewed_at = TRUE,
                                   !.reviewed_by = reviewer, !.supervisor_notes = "notes"]]
          /\ lastOp' = [op |-> "reject_item", id |-> id, ok |-> TRUE]
  /\ UNCHANGED pipeVars /\ UNCHANGED reviewVars /\ UNCHANGED toolVars

\* mutant: mark_as_sent without the test of reviewed_at
ReadyToSend_Unreviewed(item) == item.status = "pending"

\* the condition under which mark_as_sent goes on to mark the item
ReadyToSend(item) == item.status = "pending" /\ item.reviewed_at

mark_as_sent(id) ==
  /\ id \in ItemIds
  /\ IF id > Len(queue) \/ ~ReadyToSend(queue[id])
     THEN /\ queue' = queue
          /\ lastOp' = [op |-> "mark_as_sent", id |-> id, ok |-> FALSE]
     ELSE /\ queue' = [queue EXCEPT ![id] =
                         [@ EXCEPT !.status = "sent", !.email_delivery_status = "sent"]]
          /\ lastOp' = [op |-> "mark_as_sent", id |-> id, ok |-> TRUE]
  /\ UNCHANGED pipeVars /\ UNCHANGED reviewVars /\ UNCHANGED toolVars

Next ==
  \/ \E p \in Procs : Start(p)
  \/ \E p \in Procs : Prefilter(p)
  \/ \E p \in Procs : ScanShow(p)
  \/ \E p \in Procs : HandleApproval(p)
  \/ \E p \in Procs : AddToQueue(p)
  \/ \E p \in Procs : StoreFault(p)
  \/ \E id \in ItemIds, r \in Reviewers : approve_item(id, r)
  \/ \E id \in ItemIds, r \in Reviewers : reject_item(id, r)
  \/ \E id \in ItemIds : mark_as_sent(id)

Spec == Init /\ [][Next]_vars

\* ------------------------------------------- DiscountPreFilter (reason codes)
\* rows of the user inside the last 24 hours that a human approved
HasRecentApprovedRequest(rq, u) ==
  \E i \in 1..Len(rq) : rq[i].user_email = u /\ rq[i].human_approved

validate_request(rq, u) ==
  IF u \notin Registered THEN "user_not_found"
  ELSE IF ~monthly_fee_current(u) THEN "payment_overdue"
  ELSE IF ~subscription_active(u) THEN "subscription_inactive"
  ELSE IF HasRecentApprovedRequest(rq, u) THEN "duplicate_request"
  ELSE "ok"

ValidateRequest(u) ==
  /\ prefilter_result' = [user_email |-> u, reason |-> validate_request(requests, u)]
  /\ UNCHANGED <<queue, lastOp, requests, delivered, sending>>
  /\ UNCHANGED pipeVars /\ UNCHANGED toolVars

\* ------------------------------------------------ review of discount requests
EditContents == {"edit_a", "edit_b"}

\* DiscountService.process_request: the row of a registered user, with the
\* agent's decision and draft
ProcessRequest(u, appr) ==
  /\ Len(requests) < MaxRequests
  /\ u \in Registered
  /\ requests' = Append(requests, NewRequest(u, appr))
  /\ UNCHANGED <<queue, lastOp, delivered, sending, prefilter_result>>
  /\ UNCHANGED pipeVars /\ UNCHANGED toolVars

update_email_draft(id, content, reviewer) ==
  /\ id \in 1..Len(requests)
  /\ requests' = [requests EXCEPT ![id] =
                    [@ EXCEPT !.human_modified_email = content,
                              !.human_reviewer = reviewer,
                              !.human_notes = "notes",
                              !.reviewed_at = TRUE]]
  /\ lastOp' = [op |-> "update_email_draft", id |-> id, ok |-> TRUE]
  /\ UNCHANGED <<queue, delivered, sending, prefilter_result>>
  /\ UNCHANGED pipeVars /\ UNCHANGED toolVars

\* the human modified email, or else the draft
FinalEmailContent(row) ==
  IF row.human_modified_email # "none" THEN row.human_modified_email ELSE row.email_draft

\* approve_and_send_email up to the call of the email service
ApproveSendBegin(v, id) ==
  /\ sending[v] = 0
  /\ id \in 1..Len(requests)
  /\ IF requests[id].email_sent \/ FinalEmailContent(requests[id]) = "none"
     THEN /\ lastOp' = [op |-> "approve_and_send_email", id |-> id, ok |-> FALSE]
          /\ sending' = sending
     ELSE /\ lastOp' = lastOp
          /\ sending' = [sending EXCEPT ![v] = id]
  /\ UNCHANGED <<queue, requests, delivered, prefilter_result>>
  /\ UNCHANGED pipeVars /\ UNCHANGED toolVars

\* mutant: the email goes out and the request is left as it was
ApproveSendFinish_NoRecord(v, reviewer, sent) ==
  /\ sending[v] # 0
  /\ delivered' = [delivered EXCEPT ![sending[v]] = IF sent THEN @ + 1 ELSE @]
  /\ lastOp' = [op |-> "approve_and_send_email", id |-> sending[v], ok |-> sent]
  /\ sending' = [sending EXCEPT ![v] = 0]
  /\ UNCHANGED <<queue, requests, prefilter_result>>
  /\ UNCHANGED pipeVars /\ UNCHANGED toolVars

\* mutant: the request is marked as sent whatever the email service answers
ApproveSendFinish_MarkAlways(v, reviewer, sent) ==
  /\ sending[v] # 0
  /\ LET id == sending[v] IN
       /\ delivered' = [delivered EXCEPT ![id] = IF sent THEN @ + 1 ELSE @]
       /\ requests' = [requests EXCEPT ![id] =
                         [@ EXCEPT !.email_sent = TRUE, !.human_reviewed = TRUE,
                                   !.human_reviewer = reviewer, !.human_notes = "final",
                                   !.status = "sent"]]
       /\ lastOp' = [op |-> "approve_and_send_email", id |-> id, ok |-> sent]
  /\ sending' = [sending EXCEPT ![v] = 0]
  /\ UNCHANGED <<queue, prefilter_result>>
  /\ UNCHANGED pipeVars /\ UNCHANGED toolVars

\* the email service answers and approve_and_send_email finishes
ApproveSendFinish(v, reviewer, sent) ==
  /\ sending[v] # 0
  /\ LET id == sending[v] IN
       /\ delivered' = [delivered EXCEPT ![id] = IF sent THEN @ + 1 ELSE @]
       /\ requests' = IF sent
            THEN [requests EXCEPT ![id] =
                    [@ EXCEPT !.email_sent = TRUE, !.human_reviewed = TRUE,
                              !.human_reviewer = reviewer, !.human_notes = "final",
                              !.status = "sent"]]
            ELSE requests
       /\ lastOp' = [op |-> "approve_and_send_email", id |-> id, ok |-> sent]
  /\ sending' = [sending EXCEPT ![v] = 0]
  /\ UNCHANGED <<queue, prefilter_result>>
  /\ UNCHANGED pipeVars /\ UNCHANGED toolVars

reject_request(id, reviewer) ==
  /\ id \in 1..Len(requests)
  /\ requests' = [requests EXCEPT ![id] =
                    [@ EXCEPT !.approved = FALSE, !.status = "rejected",
                              !.human_reviewed = TRUE, !.human_reviewer = reviewer,
                              !.human_notes = "override", !.reviewed_at = TRUE]]
  /\ lastOp' = [op |-> "reject_request", id |-> id, ok |-> TRUE]
  /\ UNCHANGED <<queue, delivered, sending, prefilter_result>>
  /\ UNCHANGED pipeVars /\ UNCHANGED toolVars

NextReview ==
  \/ \E u \in Emails : ValidateRequest(u)
  \/ \E u \in Senders, appr \in BOOLEAN : ProcessRequest(u, appr)
  \/ \E id \in RequestIds, c \in EditContents, r \in Reviewers : update_email_draft(id, c, r)
  \/ \E v \in Sups, id \in RequestIds : ApproveSendBegin(v, id)
  \/ \E v \in Sups, r \in Reviewers, sent \in BOOLEAN : ApproveSendFinish(v, r, sent)
  \/ \E id \in RequestIds, r \in Reviewers : reject_request(id, r)

SpecReview == Init /\ [][NextReview]_vars

\* ------------------------------------------------------ candidate searches
\* thresholds of the two searches, in hundredths as partial_ratio gives them
AgentFuzzyThreshold == 80
PrefilterFuzzyThreshold == 60

Candidate(q, d, s) ==
  [id |-> s, remaining_discounts |-> get_remaining_discounts(q, s),
   similarity_score |-> similarity(d, s)]

\* the shows of m as a list sorted by similarity, highest first
SortedCandidates(q, d, m) ==
  [n \in 1..Cardinality(m) |-> Candidate(q, d, NthMatch(d, m, n - 1))]

\* DatabaseQueryTool.find_matching_shows
find_matching_shows(q, d) ==
  SortedCandidates(q, d, {s \in Shows : active(s) /\ similarity(d, s) >= AgentFuzzyThreshold})

\* DiscountPreFilter._find_shows_with_discounts
_find_shows_with_discounts(q, d) ==
  SortedCandidates(q, d, {s \in Shows : /\ active(s)
                                        /\ similarity(d, s) >= PrefilterFuzzyThreshold
                                        /\ get_remaining_discounts(q, s) > 0})

FindMatchingShows(d) ==
  /\ candidates' = [tool |-> "find_matching_shows", description |-> d,
                    shows |-> find_matching_shows(queue, d)]
  /\ UNCHANGED <<queue, lastOp, call, matcher, listing, sessions>> /\ UNCHANGED pipeVars /\ UNCHANGED reviewVars

FindShowsWithDiscounts(d) ==
  /\ candidates' = [tool |-> "_find_shows_with_discounts", description |-> d,
                    shows |-> _find_shows_with_discounts(queue, d)]
  /\ UNCHANGED <<queue, lastOp, call, matcher, listing, sessions>> /\ UNCHANGED pipeVars /\ UNCHANGED reviewVars

\* one pipeline execution, the supervisors and the candidate searches
NextResolve ==
  \/ Start(1)
  \/ Prefilter(1)
  \/ ScanShow(1)
  \/ HandleApproval(1)
  \/ AddToQueue(1)
  \/ \E id \in ItemIds, r \in Reviewers : approve_item(id, r)
  \/ \E id \in ItemIds, r \in Reviewers : reject_item(id, r)
  \/ \E d \in Descriptions : FindMatchingShows(d)
  \/ \E d \in Descriptions : FindShowsWithDiscounts(d)

SpecResolve == Init /\ [][NextResolve]_vars

\* --------------------------------------------- calls of functions without effects
\* every variable but call
exceptCall == <<queue, requests, pc, req, avail, scanned, data, outcome, lastOp,
                delivered, sending, prefilter_result, candidates, matcher, listing, sessions>>

\* similarity scores around the threshold, the clear winner score and the margin
ScoreValues == {0, 69, 70, 75, 76, 89, 90, 100}
\* the lists of available shows handed to the matching
AvailableLists == {{}, ActiveShows, Shows}

\* the decision part of _find_matching_shows on any scores and any list of
\* available shows
ResolveScores(sc, av) ==
  /\ call' = [fn |-> "match_scores", scores |-> sc, available |-> av,
              result |-> match_scores(sc, av)]
  /\ UNCHANGED exceptCall

NextScores ==
  \E sc \in [Shows -> ScoreValues], av \in AvailableLists : ResolveScores(sc, av)

SpecScores == Init /\ [][NextScores]_vars

\* ------------------------------------------------- IntelligentShowMatcher
\* every variable but matcher
exceptMatcher == <<queue, requests, pc, req, avail, scanned, data, outcome, lastOp,
                   delivered, sending, prefilter_result, candidates, call, listing, sessions>>

\* what the language model can answer to the show analysis prompt
LlmAnswers == {"json_found_single", "json_found_multiple", "json_not_found",
               "json_other_status", "no_json"}

\* the status _parse_show_analysis_response hands on
_parse_show_analysis_response(answer) ==
  CASE answer = "json_found_single" -> "found_single"
    [] answer = "json_found_multiple" -> "found_multiple"
    [] answer = "json_not_found" -> "not_found"
    [] answer = "json_other_status" -> "other"
    [] OTHER -> "not_found"

\* the status of the MatchingResult for an analysis
MatchingStatus(analysis) ==
  IF analysis = "found_single" THEN "approved" ELSE "needs_clarification"

\* a request that passed the prefilter reaches the matcher
MatcherStart(u, r, d) ==
  /\ matcher.pc \in {"idle", "responded"}
  /\ validate_request(requests, u) = "ok"
  /\ matcher' = [NoMatcher EXCEPT !.pc = "analyze", !.user_email = u,
                                  !.request_id = r, !.description = d]
  /\ UNCHANGED exceptMatcher

\* _llm_analyze_show_request: the prompt is built and llm.ainvoke is awaited
MatcherInvoke ==
  /\ matcher.pc = "analyze"
  /\ matcher' = [matcher EXCEPT !.pc = "waiting", !.analyze_calls = @ + 1]
  /\ UNCHANGED exceptMatcher

\* the language model answers inside the timeout
MatcherAnswer(answer) ==
  /\ matcher.pc = "waiting"
  /\ matcher' = [matcher EXCEPT !.pc = "analyzed",
                                !.analysis = _parse_show_analysis_response(answer)]
  /\ UNCHANGED exceptMatcher

\* mutant: after a failure the analysis is asked for again
MatcherFailure_Retry ==
  /\ matcher.pc = "waiting"
  /\ matcher' = [matcher EXCEPT !.pc = IF matcher.analyze_calls < 2 THEN "analyze"
                                       ELSE "analyzed",
                                !.failed = TRUE, !.analysis = "not_found"]
  /\ UNCHANGED exceptMatcher

\* the timeout of the language model expires or the call raises: the except
\* clause answers not_found
MatcherFailure ==
  /\ matcher.pc = "waiting"
  /\ matcher' = [matcher EXCEPT !.pc = "analyzed", !.failed = TRUE,
                                !.analysis = "not_found"]
  /\ UNCHANGED exceptMatcher

\* process_validated_request asks the language model for the email of the case
MatcherEmailInvoke ==
  /\ matcher.pc = "analyzed"
  /\ matcher' = [matcher EXCEPT !.pc = "email_waiting", !.email_calls = @ + 1]
  /\ UNCHANGED exceptMatcher

\* the email comes from the language model, or from the fallback text when
\* the call fails, and the MatchingResult is returned
MatcherReturn(llm_ok) ==
  /\ matcher.pc = "email_waiting"
  /\ matcher' = [matcher EXCEPT !.pc = "done",
                                !.status = MatchingStatus(matcher.analysis),
                                !.email = IF llm_ok THEN "llm" ELSE "fallback"]
  /\ UNCHANGED exceptMatcher

\* queue_data of _create_clarification_response: the decision is under the
\* key "decision"; the key "decision_type", which add_to_queue reads, is absent
LlmClarificationData(email_content) ==
  [decision |-> "needs_clarification", decision_type |-> "none",
   decision_source |-> "llm_generated",
   show_id |-> None, email_content |-> email_content]

\* queue_data of _create_prefilter_rejection_response, with the same keys
PrefilterRejectionQueueData ==
  [decision |-> "rejected", decision_type |-> "none",
   decision_source |-> "prefilter_template",
   show_id |-> None, email_content |-> "simple_rejection"]

\* mutant: the column decision_type accepts NULL
DecisionTypeMissing_Nullable(d) == FALSE

\* supervision_queue.decision_type is NOT NULL: the commit of a row whose
\* decision_data has no decision_type raises
DecisionTypeMissing(d) == d.decision_type = "none"

\* _create_error_response
ErrorResponse == [success |-> FALSE, decision |-> "rejected", status |-> "none"]

\* add_to_queue as DiscountDecisionService calls it: the row is added unless
\* the commit raises (request_id taken, decision_type missing); the exception
\* ends in _create_error_response
EnqueueOrError(m, d, decision) ==
  IF RequestIdTaken(queue, m.request_id) \/ DecisionTypeMissing(d)
    THEN /\ matcher' = [m EXCEPT !.pc = "responded", !.response = ErrorResponse]
         /\ UNCHANGED queue
    ELSE /\ queue' = Append(queue, NewQueueItem(m, d))
         /\ matcher' = [m EXCEPT !.pc = "responded",
                         !.response = [success |-> TRUE, decision |-> decision,
                                       status |-> "queued_for_supervision"]]

\* DiscountDecisionService.process_discount_request after the matcher: the
\* approval response evaluates len(prefilter_result.candidate_shows) with
\* candidate_shows None and raises before the queue is written; the
\* clarification response adds its queue_data to the queue
DecisionRespond ==
  /\ matcher.pc = "done"
  /\ IF matcher.status = "approved"
       THEN /\ matcher' = [matcher EXCEPT !.pc = "responded", !.response = ErrorResponse]
            /\ UNCHANGED queue
       ELSE EnqueueOrError(matcher, LlmClarificationData(matcher.email),
                           "needs_clarification")
  /\ UNCHANGED <<requests, pc, req, avail, scanned, data, outcome, lastOp,
                 delivered, sending, prefilter_result, candidates, call, listing, sessions>>

\* DiscountDecisionService.process_discount_request for a request the
\* prefilter rejects: _create_prefilter_rejection_response adds its
\* queue_data to the queue; the matcher is not called
DecisionPrefilterReject(u, r, d) ==
  /\ matcher.pc \in {"idle", "responded"}
  /\ validate_request(requests, u) # "ok"
  /\ EnqueueOrError([NoMatcher EXCEPT !.user_email = u, !.request_id = r,
                                      !.description = d],
                    PrefilterRejectionQueueData, "rejected")
  /\ UNCHANGED <<requests, pc, req, avail, scanned, data, outcome, lastOp,
                 delivered, sending, prefilter_result, candidates, call, listing, sessions>>

MatcherStep ==
  \/ DecisionRespond
  \/ MatcherInvoke
  \/ \E answer \in LlmAnswers : MatcherAnswer(answer)
  \/ MatcherFailure
  \/ MatcherEmailInvoke
  \/ \E llm_ok \in BOOLEAN : MatcherReturn(llm_ok)

NextMatcher ==
  \/ \E u \in Emails, r \in Rids, d \in Descriptions : MatcherStart(u, r, d)
  \/ MatcherStep

\* every await of the execution ends: the language model answers or its
\* timeout of 30 seconds raises
SpecMatcher == Init /\ [][NextMatcher]_vars /\ WF_vars(MatcherStep)

\* both pipelines that add to the queue: SimpleDiscountService and
\* DiscountDecisionService
NextEnqueue ==
  \/ Start(1)
  \/ Prefilter(1)
  \/ ScanShow(1)
  \/ HandleApproval(1)
  \/ AddToQueue(1)
  \/ \E u \in Emails, r \in Rids, d \in Descriptions : DecisionPrefilterReject(u, r, d)
  \/ \E u \in Emails, r \in Rids, d \in Descriptions : MatcherStart(u, r, d)
  \/ MatcherStep

SpecEnqueue == Init /\ [][NextEnqueue]_vars

\* ------------------------------------------------ LangChainAgentService
\* check_previous_requests on the best match (the rows of the model are
\* requests for one and the same show)
check_previous_requests(rq, u) ==
  [has_previous_request |-> \E i \in 1..Len(rq) : rq[i].user_email = u,
   previous_approved |-> \E i \in 1..Len(rq) : rq[i].user_email = u /\ rq[i].approved]

\* _build_decision_context: the user is looked up, then the candidate
\* search runs on the description, whatever the standing of the user
BuildDecisionContext(u, d) ==
  /\ candidates' = [tool |-> "find_matching_shows", description |-> d,
                    shows |-> find_matching_shows(queue, d)]
  /\ call' = [fn |-> "_build_decision_context", user_email |-> u,
              show_description |-> d,
              user_data |-> u \in Registered,
              matching_shows |-> find_matching_shows(queue, d),
              user_history |-> IF find_matching_shows(queue, d) # <<>> /\ u \in Registered
                                 THEN check_previous_requests(requests, u)
                                 ELSE [has_previous_request |-> FALSE,
                                       previous_approved |-> FALSE]]
  /\ UNCHANGED <<queue, lastOp, matcher, listing, sessions>> /\ UNCHANGED pipeVars
  /\ UNCHANGED reviewVars

\* _add_fail_fast_validation: the first failing check of the context
_add_fail_fast_validation(ctx) ==
  IF ~ctx.user_data THEN "user_not_found"
  ELSE IF ~subscription_active(ctx.user_email) THEN "subscription_inactive"
  ELSE IF ~monthly_fee_current(ctx.user_email) THEN "fees_not_current"
  ELSE IF ctx.matching_shows = <<>> THEN "show_not_found"
  ELSE IF ctx.matching_shows[1].similarity_score < AgentFuzzyThreshold THEN "show_not_found"
  ELSE IF ctx.matching_shows[1].remaining_discounts <= 0 THEN "no_discounts_available"
  ELSE IF ctx.user_history.has_previous_request /\ ctx.user_history.previous_approved
    THEN "previous_request_exists"
  ELSE "pass"

\* _make_llm_decision after the context: the fail-fast checks
FailFastValidation ==
  /\ call.fn = "_build_decision_context"
  /\ call' = [fn |-> "_add_fail_fast_validation", user_email |-> call.user_email,
              show_description |-> call.show_description,
              fail_fast |-> _add_fail_fast_validation(call) # "pass",
              rejection_reason |-> _add_fail_fast_validation(call)]
  /\ UNCHANGED exceptCall

\* the two pipelines, one request at a time each
NextShortCircuit ==
  \/ Start(1)
  \/ Prefilter(1)
  \/ ScanShow(1)
  \/ HandleApproval(1)
  \/ AddToQueue(1)
  \/ \E u \in Emails, d \in Descriptions : BuildDecisionContext(u, d)
  \/ FailFastValidation

SpecShortCircuit == Init /\ [][NextShortCircuit]_vars

\* ------------------------------------------- prefilter on a named show
\* DiscountPreFilter.validate_request: the user checks decide; the show
\* description is only copied into the result (candidate_shows = None)
PreFilterResult(rq, u, d) ==
  [approved |-> validate_request(rq, u) = "ok",
   rejected |-> validate_request(rq, u) # "ok",
   reason |-> validate_request(rq, u),
   original_description |-> IF validate_request(rq, u) = "ok" THEN d ELSE "none"]

\* a call of validate_request, with the remaining discounts of the shows in
\* the database at the time of the call
PreFilterValidate(u, d) ==
  /\ call' = [fn |-> "validate_request", user_email |-> u, show_description |-> d,
              remaining |-> [s \in Shows |-> get_remaining_discounts(queue, s)],
              result |-> PreFilterResult(requests, u, d)]
  /\ UNCHANGED exceptCall

NextSoldOut ==
  \/ Start(1)
  \/ Prefilter(1)
  \/ ScanShow(1)
  \/ HandleApproval(1)
  \/ AddToQueue(1)
  \/ \E u \in Emails, d \in Descriptions : PreFilterValidate(u, d)

SpecSoldOut == Init /\ [][NextSoldOut]_vars

\* ------------------------------------------------- mark_as_sent on a row
\* rows of supervision_queue by the columns mark_as_sent reads and writes
DeliveryStatuses == {"none", "sent", "failed", "bounced"}
QueueRows ==
  {[SeedItem("sent") EXCEPT !.status = st, !.reviewed_at = rv,
                            !.email_delivery_status = ds, !.decision_type = dt,
                            !.show_id = s] :
     st \in Statuses, rv \in BOOLEAN, ds \in DeliveryStatuses, s \in ActiveShows,
     dt \in {"approved", "rejected", "needs_clarification"}}

\* what mark_as_sent returns and the row it leaves
mark_as_sent_row(item) ==
  IF ~ReadyToSend(item)
    THEN [ok |-> FALSE, item |-> item]
    ELSE [ok |-> TRUE,
          item |-> [item EXCEPT !.status = "sent", !.email_delivery_status = "sent"]]

\* mark_as_sent on a row of the table: no call of the email service
MarkAsSentRow(item) ==
  /\ call' = [fn |-> "mark_as_sent", item |-> item, result |-> mark_as_sent_row(item)]
  /\ UNCHANGED exceptCall

NextMarkSent == \E item \in QueueRows : MarkAsSentRow(item)

SpecMarkSent == Init /\ [][NextMarkSent]_vars

\* ------------------------------------------------------------- statistics
\* number of queue items with the decision type and status given
CountItems(q, decision_type, st) ==
  Cardinality({i \in 1..Len(q) :
                 q[i].decision_type = decision_type /\ q[i].status = st})

CountStatus(q, st) == Cardinality({i \in 1..Len(q) : q[i].status = st})

\* SupervisionQueueService.get_queue_stats: three counts and their sum
get_queue_stats(q) ==
  [approved_pending |-> CountItems(q, "approved", "pending"),
   rejected_pending |-> CountItems(q, "rejected", "pending"),
   sent |-> CountStatus(q, "sent"),
   total |-> CountItems(q, "approved", "pending")
               + CountItems(q, "rejected", "pending") + CountStatus(q, "sent")]

GetQueueStats ==
  /\ call' = [fn |-> "get_queue_stats", queue |-> queue, result |-> get_queue_stats(queue)]
  /\ UNCHANGED exceptCall

\* SupervisionService.get_supervision_stats: the approval rate of the agent in
\* tenths of a percent, round(agent_approved / total_processed * 100, 1)
agent_approval_rate(rq) ==
  LET total_processed == Len(rq)
      agent_approved == Cardinality({i \in 1..Len(rq) : rq[i].approved})
  IN IF total_processed > 0
       THEN (agent_approved * 2000 + total_processed) \div (2 * total_processed)
       ELSE 0

GetSupervisionStats ==
  /\ call' = [fn |-> "get_supervision_stats", total_processed |-> Len(requests),
              result |-> [total_processed |-> Len(requests),
                          agent_approval_rate |-> agent_approval_rate(requests)]]
  /\ UNCHANGED exceptCall

NextStats ==
  \/ Start(1)
  \/ Prefilter(1)
  \/ ScanShow(1)
  \/ HandleApproval(1)
  \/ AddToQueue(1)
  \/ \E id \in ItemIds, r \in Reviewers : approve_item(id, r)
  \/ \E id \in ItemIds, r \in Reviewers : reject_item(id, r)
  \/ \E id \in ItemIds : mark_as_sent(id)
  \/ \E u \in Emails, appr \in BOOLEAN : ProcessRequest(u, appr)
  \/ GetQueueStats
  \/ GetSupervisionStats

SpecStats == Init /\ [][NextStats]_vars

\* ---------------------------------------------------------- email templates
TemplateKeys == {"user_name", "show_title", "template_name"}
MaxFields == 2

\* the text of a template, as the sequence of its replacement fields
TemplateTexts == UNION {[1..n -> TemplateKeys] : n \in 0..MaxFields}

\* the template file of the templates directory: present with a text, or absent
StoredTemplates ==
  {[exists |-> TRUE, text |-> t] : t \in TemplateTexts}
    \cup {[exists |-> FALSE, text |-> <<>>]}

\* TemplateEngine._load_template: the text of the file, or the text
\* "Template not found: {template_name}" when the file is not found
_load_template(stored) ==
  IF stored.exists THEN stored.text ELSE <<"template_name">>

\* str.format(**context): every replacement field is looked up in the
\* context; a field without a key raises KeyError
format(template, context) ==
  IF \E i \in 1..Len(template) : template[i] \notin context
    THEN [raised |-> TRUE, produced |-> FALSE, body |-> <<>>]
    ELSE [raised |-> FALSE, produced |-> TRUE,
          body |-> [i \in 1..Len(template) |-> <<"value", template[i]>>]]

\* TemplateEngine.generate_approval_email and generate_rejection_email
generate_email(stored, context) == format(_load_template(stored), context)

GenerateApprovalEmail(stored, context) ==
  /\ call' = [fn |-> "generate_approval_email", exists |-> stored.exists,
              template |-> stored.text, context |-> context,
              result |-> generate_email(stored, context)]
  /\ UNCHANGED exceptCall

GenerateRejectionEmail(stored, context) ==
  /\ call' = [fn |-> "generate_rejection_email", exists |-> stored.exists,
              template |-> stored.text, context |-> context,
              result |-> generate_email(stored, context)]
  /\ UNCHANGED exceptCall

\* TemplateEmailService.generate_rejection_email: the built-in texts by reason
\* code, and the text of user_not_found for any other code
ReasonCodes == {"user_not_found", "payment_overdue", "subscription_inactive",
                "no_discounts_available", "duplicate_request"}
RejectionTemplate(reason_code) ==
  IF reason_code \in ReasonCodes THEN reason_code ELSE "user_not_found"

TemplateRejectionEmail(reason_code) ==
  /\ call' = [fn |-> "template_rejection_email", exists |-> reason_code \in ReasonCodes,
              reason_code |-> reason_code,
              result |-> [raised |-> FALSE, produced |-> TRUE,
                          body |-> <<RejectionTemplate(reason_code)>>]]
  /\ UNCHANGED exceptCall

\* send_payment_info_email: without the payment_info record it returns
\* before building or sending anything
SendPaymentInfoEmail(template_exists) ==
  /\ call' = [fn |-> "send_payment_info_email", exists |-> template_exists,
              result |-> [raised |-> FALSE, produced |-> template_exists,
                          body |-> IF template_exists THEN <<"payment_info">> ELSE <<>>]]
  /\ UNCHANGED exceptCall

NextRender ==
  \/ \E stored \in StoredTemplates, context \in SUBSET TemplateKeys :
       GenerateApprovalEmail(stored, context)
  \/ \E stored \in StoredTemplates, context \in SUBSET TemplateKeys :
       GenerateRejectionEmail(stored, context)
  \/ \E reason_code \in ReasonCodes \cup {"unknown_reason"} :
       TemplateRejectionEmail(reason_code)
  \/ \E template_exists \in BOOLEAN : SendPaymentInfoEmail(template_exists)

SpecRender == Init /\ [][NextRender]_vars

\* ------------------------------------------------------- listing the queue
\* every variable but listing
exceptListing == <<queue, requests, pc, req, avail, scanned, data, outcome, lastOp,
                   delivered, sending, prefilter_result, candidates, call, matcher, sessions>>

PageSize == 2
Pages == 1..2

\* ids of the rows inserted so far (autoincrement: 1, 2, ...)
ListedIds == {i \in 1..MaxItems : listing.created_at[i] # 0}

\* the clock datetime.utcnow reads moves on
ListingTick ==
  /\ listing.clock < MaxClock
  /\ listing' = [listing EXCEPT !.clock = @ + 1]
  /\ UNCHANGED exceptListing

\* add_to_queue: the row gets the next id and created_at = datetime.utcnow()
ListingInsert ==
  /\ Cardinality(ListedIds) < MaxItems
  /\ listing' = [listing EXCEPT !.created_at[Cardinality(ListedIds) + 1] = listing.clock]
  /\ UNCHANGED exceptListing

\* the orders ORDER BY created_at DESC allows: rows of equal created_at come
\* in whatever order the database produces
OrdersByCreatedDesc ==
  {o \in [1..Cardinality(ListedIds) -> ListedIds] :
     /\ \A i, j \in DOMAIN o : i # j => o[i] # o[j]
     /\ \A i, j \in DOMAIN o :
          i < j => listing.created_at[o[i]] >= listing.created_at[o[j]]}

\* .offset((page - 1) * page_size).limit(page_size)
PageOf(o, page) ==
  SubSeq(o, (page - 1) * PageSize + 1,
         IF page * PageSize < Len(o) THEN page * PageSize ELSE Len(o))

\* the pairs (a, b) of a page with a listed before b
OrderedPairs(items) ==
  {pr \in ListedIds \X ListedIds :
     \E i, j \in 1..Len(items) : i < j /\ items[i] = pr[1] /\ items[j] = pr[2]}

\* get_filtered_items without filters: one page of the ordered rows
get_filtered_items(o, page) ==
  /\ listing' = [listing EXCEPT !.page = PageOf(o, page),
                                !.seen = @ \cup OrderedPairs(PageOf(o, page))]
  /\ UNCHANGED exceptListing

NextListing ==
  \/ ListingTick
  \/ ListingInsert
  \/ \E o \in OrdersByCreatedDesc, page \in Pages : get_filtered_items(o, page)

SpecListing == Init /\ [][NextListing]_vars

\* ------------------------------------------------------------ pagination
\* page sizes and pages asked for (page >= 1 and page_size >= 1 by
\* SupervisionFilters)
PagingSizes == {1, 2}
PagingPages == 1..MaxItems
StatusFilters == {"none", "pending", "sent"}
NoPage == [fetched |-> FALSE, items |-> <<>>, total |-> 0, total_pages |-> 0,
           has_next |-> FALSE, has_prev |-> FALSE]

\* the rows that pass the conditions: filters.get('status') adds
\* SupervisionQueue.status == filters['status'], no filter adds none
MatchingRows(status, filter) ==
  {i \in ListedIds : filter = "none" \/ status[i] = filter}

\* the orders ORDER BY created_at DESC allows on the matching rows
FilteredOrders(status, filter) ==
  LET m == MatchingRows(status, filter) IN
  {o \in [1..Cardinality(m) -> m] :
     /\ \A i, j \in DOMAIN o : i # j => o[i] # o[j]
     /\ \A i, j \in DOMAIN o :
          i < j => listing.created_at[o[i]] >= listing.created_at[o[j]]}

\* .offset((page - 1) * page_size).limit(page_size)
PageSlice(o, page, page_size) ==
  SubSeq(o, (page - 1) * page_size + 1,
         IF page * page_size < Len(o) THEN page * page_size ELSE Len(o))

\* the dict get_filtered_items returns
PaginatedResponse(o, total_count, page, page_size) ==
  LET total_pages == (total_count + page_size - 1) \div page_size IN
  [fetched |-> TRUE,
   items |-> PageSlice(o, page, page_size),
   total |-> total_count,
   total_pages |-> total_pages,
   has_next |-> page < total_pages,
   has_prev |-> page > 1]

\* rows are added to the queue before the pages are read
PagingInsert ==
  /\ call.fn = "none"
  /\ ListingInsert

\* a client starts reading the pages of an unchanging queue with one filter
\* and one page size; status is the status column of the rows
PagingBegin(status, filter, page_size) ==
  /\ call.fn = "none"
  /\ ListedIds # {}
  /\ call' = [fn |-> "get_filtered_items", status |-> status, filter |-> filter,
              page_size |-> page_size, pages |-> [p \in PagingPages |-> NoPage]]
  /\ UNCHANGED exceptCall

\* get_filtered_items(filters, page, page_size): the count query, then the
\* ordered query with OFFSET and LIMIT
GetFilteredPage(o, page) ==
  /\ call.fn = "get_filtered_items"
  /\ o \in FilteredOrders(call.status, call.filter)
  /\ call' = [call EXCEPT !.pages[page] =
                PaginatedResponse(o, Cardinality(MatchingRows(call.status, call.filter)),
                                  page, call.page_size)]
  /\ UNCHANGED exceptCall

NextPaging ==
  \/ ListingTick
  \/ PagingInsert
  \/ \E st \in [1..MaxItems -> {"pending", "sent"}], f \in StatusFilters, ps \in PagingSizes :
       PagingBegin(st, f, ps)
  \/ /\ call.fn = "get_filtered_items"
     /\ \E page \in PagingPages :
          \E o \in FilteredOrders(call.status, call.filter) : GetFilteredPage(o, page)

SpecPaging == Init /\ [][NextPaging]_vars

\* --------------------------------------------------------------- sessions
\* every variable but sessions
exceptSessions == <<queue, requests, pc, req, avail, scanned, data, outcome, lastOp,
                    delivered, sending, prefilter_result, candidates, call, matcher,
                    listing>>

\* active_sessions[token]['expires'], 0 when the token is not a key
Expires(token) == sessions.active_sessions[token]

\* datetime.now() moves on
SessionTick ==
  /\ sessions.now < MaxNow
  /\ sessions' = [sessions EXCEPT !.now = @ + 1,
                                  !.last = [op |-> "tick", token |-> 0, result |-> TRUE]]
  /\ UNCHANGED exceptSessions

\* login: wrong credentials raise 401; right ones store a new token
\* (create_session_token hashes 16 fresh random bytes: a value no login
\* returned and no cookie carried before) that expires 24 hours from now
login(credentials_ok, token) ==
  /\ token \in SessionTokens \ (sessions.issued \cup sessions.logged_out)
  /\ IF ~credentials_ok
       THEN sessions' = [sessions EXCEPT !.last = [op |-> "login", token |-> 0, result |-> FALSE]]
       ELSE sessions' = [sessions EXCEPT
                           !.active_sessions[token] = sessions.now + SessionTTL,
                           !.created[token] = sessions.now,
                           !.issued = @ \cup {token},
                           !.last = [op |-> "login", token |-> token, result |-> TRUE]]
  /\ UNCHANGED exceptSessions

\* active_sessions after is_valid_session(token)
SessionsAfterValidation(token) ==
  IF Expires(token) # 0 /\ sessions.now > Expires(token)
    THEN [sessions.active_sessions EXCEPT ![token] = 0]
    ELSE sessions.active_sessions

\* the value is_valid_session(token) returns
SessionIsValid(token) == Expires(token) # 0 /\ ~(sessions.now > Expires(token))

\* is_valid_session(token), as verify_session and verify_session_token call it
is_valid_session(token) ==
  /\ sessions' = [sessions EXCEPT
                    !.active_sessions = SessionsAfterValidation(token),
                    !.last = [op |-> "is_valid_session", token |-> token,
                              result |-> SessionIsValid(token)]]
  /\ UNCHANGED exceptSessions

\* mutant: logout that clears the cookie and keeps the session
logout_KeepsSession(token) ==
  /\ sessions' = [sessions EXCEPT
                    !.logged_out = @ \cup {token},
                    !.last = [op |-> "logout", token |-> token, result |-> TRUE]]
  /\ UNCHANGED exceptSessions

\* logout with the cookie token: the token is deleted when it is a key
logout(token) ==
  /\ sessions' = [sessions EXCEPT
                    !.active_sessions[token] = 0,
                    !.logged_out = @ \cup {token},
                    !.last = [op |-> "logout", token |-> token, result |-> TRUE]]
  /\ UNCHANGED exceptSessions

\* list_active_sessions: 401 unless the caller's token is valid, then every
\* expired token is deleted
list_active_sessions(token) ==
  /\ sessions' = [sessions EXCEPT
                    !.active_sessions =
                      IF SessionIsValid(token)
                        THEN [t \in SessionTokens |->
                                IF sessions.now > Expires(t) THEN 0 ELSE Expires(t)]
                        ELSE SessionsAfterValidation(token),
                    !.last = [op |-> "list_active_sessions", token |-> token,
                              result |-> SessionIsValid(token)]]
  /\ UNCHANGED exceptSessions

NextSessions ==
  \/ SessionTick
  \/ \E ok \in BOOLEAN, t \in SessionTokens : login(ok, t)
  \/ \E t \in SessionTokens : is_valid_session(t)
  \/ \E t \in SessionTokens : logout(t)
  \/ \E t \in SessionTokens : list_active_sessions(t)

SpecSessions == Init /\ [][NextSessions]_vars

\* ------------------------------------------------- placeholder syntaxes
\* a template as the sequence of its placeholder tokens: "single" is {key},
\* the syntax of the stored templates; "double" is {{key}}
PlaceholderKeys == {"user_name", "show_title"}
PlaceholderTokens == [kind : {"single", "double"}, key : PlaceholderKeys]
SyntaxTemplates == UNION {[1..n -> PlaceholderTokens] : n \in 0..MaxFields}

ValueOf(key) == [kind |-> "value", key |-> key]

\* str.format on the tokens: {key} becomes the value of key in the context
\* (KeyError without it), {{key}} is the escape for the text {key}
format_tokens(template, context) ==
  IF \E i \in 1..Len(template) :
       template[i].kind = "single" /\ template[i].key \notin context
    THEN [raised |-> TRUE, body |-> <<>>]
    ELSE [raised |-> FALSE,
          body |-> [i \in 1..Len(template) |->
                      IF template[i].kind = "single" THEN ValueOf(template[i].key)
                      ELSE [kind |-> "single", key |-> template[i].key]]]

\* str.replace('{{user_name}}', user.name): only that text is substituted
replace_user_name(template) ==
  [raised |-> FALSE,
   body |-> [i \in 1..Len(template) |->
               IF template[i] = [kind |-> "double", key |-> "user_name"]
                 THEN ValueOf("user_name") ELSE template[i]]]

\* TemplateEngine.generate_approval_email on a template text
RenderFormat(template, context) ==
  /\ call' = [fn |-> "template.format", template |-> template, context |-> context,
              result |-> format_tokens(template, context)]
  /\ UNCHANGED exceptCall

\* send_payment_info_email on the payment_info record: the user is the context
RenderPaymentInfo(template) ==
  /\ call' = [fn |-> "send_payment_info_email", template |-> template,
              context |-> {"user_name"}, result |-> replace_user_name(template)]
  /\ UNCHANGED exceptCall

NextSyntax ==
  \/ \E template \in SyntaxTemplates, context \in SUBSET PlaceholderKeys :
       RenderFormat(template, context)
  \/ \E template \in SyntaxTemplates : RenderPaymentInfo(template)

SpecSyntax == Init /\ [][NextSyntax]_vars

\* ================================================================ claims
Done(p) == pc[p] = "done"
ItemsOf(r) == {i \in 1..Len(queue) : queue[i].request_id = r}
Faulted(p) == outcome[p].reasoning = "store_fault"
NoSupervisorCall == lastOp = NoOp

\* C1: for every show the items referencing it with status pending, approved
\* or sent never outnumber its max_discounts: the remaining discounts are
\* never negative.
C1_QuotaInvariant == \A s \in Shows : get_remaining_discounts(queue, s) >= 0

\* C2: when all executions carried distinct request ids of the eligible
\* member for show 1 (one discount, none reserved), none met a store fault and
\* no supervisor acted, exactly one returned approved and the others rejected.
C2_ExactlyOneReserved ==
  ( /\ \A p \in Procs : Done(p) /\ ~Faulted(p) /\ req[p].user_email = "ana"
                         /\ req[p].show_description = "uno"
    /\ \A p, o \in Procs : p # o => req[p].request_id # req[o].request_id
    /\ NoSupervisorCall )
  => /\ Cardinality({p \in Procs : outcome[p].decision = "approved"}) = 1
     /\ Cardinality({p \in Procs : outcome[p].decision = "rejected"}) = NumProcs - 1

\* C3: the queue never holds two items of one request id, so a request id
\* reserves at most one discount; and once an execution returned a queued
\* answer for a request id, the queue holds exactly one item of it, the one
\* the answer names.
C3_OneItemPerRequestId ==
  /\ \A r \in Rids : Cardinality(ItemsOf(r)) <= 1
  /\ \A p \in Procs :
       (Done(p) /\ outcome[p].status = "queued_for_supervision")
         => ItemsOf(req[p].request_id) = {outcome[p].queue_id}

C3_Witness ==
  \E p, o \in Procs :
    /\ p # o /\ Done(p) /\ Done(o)
    /\ req[p].request_id = req[o].request_id
    /\ outcome[p].status = "queued_for_supervision"
    /\ outcome[o].reasoning = "integrity_error"
    /\ Cardinality(ItemsOf(req[p].request_id)) = 1

\* C4: two executions of one request id that met no store fault return the
\* same queue item and the same decision, never an error answer.
C4_ReprocessReturnsSameItem ==
  \A p, o \in Procs :
    (Done(p) /\ Done(o) /\ ~Faulted(p) /\ ~Faulted(o)
       /\ req[p].request_id = req[o].request_id)
    => /\ outcome[p].queue_id = outcome[o].queue_id
       /\ outcome[p].decision = outcome[o].decision
       /\ outcome[p].decision # "error"

\* C5: the reason of a rejection is that of the first failing check in the
\* order member exists, subscription active, fees current; a member without
\* subscription and with overdue fees is told subscription_inactive.
FirstFailingStanding(u) ==
  IF u \notin Registered THEN "user_not_found"
  ELSE IF ~subscription_active(u) THEN "subscription_inactive"
  ELSE IF ~monthly_fee_current(u) THEN "payment_overdue"
  ELSE "ok"

C5_FailFastOrder ==
  LET u == prefilter_result.user_email IN
  (u \in Emails /\ FirstFailingStanding(u) # "ok")
    => prefilter_result.reason = FirstFailingStanding(u)

\* C6: every finished execution left a queue item of its request id, and an
\* execution that answered with an error left a rejected item.
C6_NeverDropsRequest ==
  \A p \in Procs :
    Done(p) => \E i \in ItemsOf(req[p].request_id) :
                 outcome[p].decision = "error" => queue[i].decision_type = "rejected"

\* C7: an item's status changes only along pending->approved,
\* pending->rejected, approved->sent and rejected->sent.
LegalEdges == {<<"pending", "approved">>, <<"pending", "rejected">>,
               <<"approved", "sent">>, <<"rejected", "sent">>}

C7_LegalTransitions ==
  [][\A i \in 1..Len(queue) :
       queue'[i].status # queue[i].status
         => <<queue[i].status, queue'[i].status>> \in LegalEdges]_vars

\* C8: once an item is sent, no operation changes any of its fields.
C8_SentIsTerminal ==
  [][\A i \in 1..Len(queue) : queue[i].status = "sent" => queue'[i] = queue[i]]_vars

\* C9: mark_as_sent on a pending item returns failure and leaves the whole
\* queue as it was.
C9_MarkSentOnPendingFails ==
  [][\A id \in ItemIds :
       (mark_as_sent(id) /\ id <= Len(queue) /\ queue[id].status = "pending")
         => (queue' = queue /\ ~lastOp'.ok)]_vars

C9_Witness ==
  /\ lastOp.op = "mark_as_sent" /\ ~lastOp.ok
  /\ lastOp.id <= Len(queue)
  /\ queue[lastOp.id].status = "pending"
  /\ queue[lastOp.id].email_delivery_status = "none"

\* C10: once a discount request is sent, an edit leaves its stored email as it
\* was.
C10_NoEditAfterSent ==
  [][\A i \in 1..Len(requests) :
       requests[i].status = "sent"
         => requests'[i].human_modified_email = requests[i].human_modified_email]_vars

\* C11: mark_as_sent on an item a supervisor approved or rejected succeeds
\* and leaves the item sent.
C11_ReviewedItemCanBeSent ==
  [][\A id \in ItemIds :
       (mark_as_sent(id) /\ id <= Len(queue)
          /\ queue[id].status \in {"approved", "rejected"})
         => (lastOp'.ok /\ queue'[id].status = "sent")]_vars

\* C12: a finished execution for the member in good standing (ana, no recent
\* request) whose description resolves to show 1 alone, with one discount
\* remaining, while no supervisor acted and no other execution reserved or
\* used its request id, returned approved; the queue holds exactly one item of
\* its request id, pending and referencing show 1; and the remaining discounts
\* of show 1 went from max_discounts to max_discounts - 1.
RanUndisturbed(p) ==
  /\ Done(p) /\ ~Faulted(p) /\ NoSupervisorCall
  /\ \A o \in Procs \ {p} :
       \/ pc[o] = "idle"
       \/ /\ Done(o)
          /\ outcome[o].decision # "approved"
          /\ req[o].request_id # req[p].request_id

ScenarioA(p) ==
  /\ RanUndisturbed(p)
  /\ req[p].user_email = "ana"
  /\ req[p].show_description = "uno"

C12_SuccessfulReservation ==
  \A p \in Procs :
    ScenarioA(p) =>
      /\ outcome[p].decision = "approved"
      /\ outcome[p].status = "queued_for_supervision"
      /\ ItemsOf(req[p].request_id) = {outcome[p].queue_id}
      /\ queue[outcome[p].queue_id].status = "pending"
      /\ queue[outcome[p].queue_id].show_id = 1
      /\ get_remaining_discounts(queue, 1) = max_discounts(1) - 1

C12_Witness ==
  \E p \in Procs :
    /\ ScenarioA(p)
    /\ outcome[p].decision = "approved"
    /\ queue[outcome[p].queue_id].show_id = 1
    /\ get_remaining_discounts(queue, 1) = 0

\* C13: the step in which an execution returns rejected or
\* needs_clarification leaves the remaining discounts of every show as they
\* were, and so does every earlier step of an execution: the item it enqueues
\* references no show.
Finishes(p) == pc[p] # "done" /\ pc'[p] = "done"

C13_NonApprovedConsumesNoQuota ==
  [][\A p \in Procs :
       /\ (Finishes(p) /\ outcome'[p].decision \in {"rejected", "needs_clarification"})
            => \A s \in Shows :
                 get_remaining_discounts(queue', s) = get_remaining_discounts(queue, s)
       /\ (pc'[p] # pc[p] /\ ~Finishes(p)) => queue' = queue]_vars

C13_Witness ==
  \E p \in Procs :
    /\ Done(p) /\ outcome[p].decision = "rejected"
    /\ outcome[p].status = "queued_for_supervision"
    /\ queue[outcome[p].queue_id].decision_source = "template_no_discounts"
    /\ queue[outcome[p].queue_id].show_id = None
    /\ queue[outcome[p].queue_id].status = "pending"

\* C14: a request for a show without remaining discounts is rejected with the
\* reason no_discounts_available. Asked(d) are the active shows the
\* description names.
Asked(d) == {s \in ActiveShows : similarity(d, s) >= MatchThreshold}

SoldOut(q, d) ==
  /\ Asked(d) # {}
  /\ \A s \in Asked(d) : get_remaining_discounts(q, s) <= 0

IsNoDiscounts(d) ==
  d.decision_type = "rejected" /\ d.email_content = "no_discounts_available"

\* the member passed the validations; the shows asked for had no discount
\* left when they were counted, or the show matched has none left at the
\* double check: the rejection cites no_discounts_available and is returned.
ExhaustedAfterValidation(p) ==
  /\ (ScanShow(p) /\ scanned'[p] = ActiveShows
        /\ Asked(req[p].show_description) # {}
        /\ Asked(req[p].show_description) \cap avail'[p] = {})
       => (IsNoDiscounts(data'[p]) /\ pc'[p] = "enqueue")
  /\ (HandleApproval(p) /\ get_remaining_discounts(queue, data[p].show_id) <= 0)
       => (IsNoDiscounts(data'[p]) /\ pc'[p] = "enqueue")
  /\ (AddToQueue(p) /\ IsNoDiscounts(data[p])
        /\ ~RequestIdTaken(queue, req[p].request_id))
       => /\ outcome'[p].decision = "rejected"
          /\ outcome'[p].reasoning = "no_discounts_available"

HoldsReservation(item) ==
  item.show_id # None /\ item.status \in {"pending", "approved"}

C15_ReleaseOnRejection ==
  [][/\ \A id \in ItemIds, r \in Reviewers :
          (reject_item(id, r) /\ id <= Len(queue) /\ HoldsReservation(queue[id]))
            => /\ lastOp'.ok
               /\ queue'[id].status = "rejected"
               /\ \A s \in Shows :
                    get_remaining_discounts(queue', s) =
                      get_remaining_discounts(queue, s)
                        + (IF s = queue[id].show_id THEN 1 ELSE 0)
     /\ \A p \in Procs :
          (HandleApproval(p) /\ get_remaining_discounts(queue, data[p].show_id) > 0)
            => (data'[p] = ApprovalData(data[p].show_id) /\ pc'[p] = "enqueue")]_vars

\* the discount of show 1 was reserved, released by a rejection and reserved
\* again by the next request
C15_Witness ==
  \E i, j \in 1..Len(queue) :
    /\ i < j
    /\ queue[i].show_id = 1 /\ queue[i].decision_type = "approved"
    /\ queue[i].status = "rejected" /\ queue[i].reviewed_at
    /\ queue[j].show_id = 1 /\ queue[j].status = "pending"
    /\ get_remaining_discounts(queue, 1) = 0
    /\ \E p \in Procs : Done(p) /\ outcome[p].decision = "approved"
                           /\ outcome[p].queue_id = j

\* C16: when the matching of a validated request ends with no match or with
\* several matches, the decision is needs_clarification and the item to
\* enqueue references no show.
C16_NoMatchNeedsClarification ==
  [][\A p \in Procs :
       (ScanShow(p) /\ scanned'[p] = ActiveShows
          /\ _find_matching_shows(req[p].show_description, avail'[p]).match_type
               \in {"no_match", "multiple_matches"})
         => /\ data'[p].decision_type = "needs_clarification"
            /\ data'[p].show_id = None
            /\ pc'[p] = "enqueue"]_vars

HasActiveItemFor(q, u, d) ==
  \E i \in 1..Len(q) :
    /\ q[i].user_email = u
    /\ q[i].show_id \in Asked(d)
    /\ q[i].status \in {"pending", "approved", "sent"}

C18_DuplicatePerShowAndStatus ==
  [][\A p \in Procs :
       (Prefilter(p) /\ FirstFailingStanding(req[p].user_email) = "ok")
         => ((data'[p].decision_type = "rejected"
               /\ data'[p].email_content = "duplicate_request")
             <=> HasActiveItemFor(queue, req[p].user_email, req[p].show_description))]_vars

\* C19: every finished execution returned a decision that is approved,
\* rejected or needs_clarification.
C19_OutcomeDecisionClosed ==
  \A p \in Procs :
    Done(p) => outcome[p].decision \in {"approved", "rejected", "needs_clarification"}

\* C20: every show a candidate search returns is active and had a discount
\* remaining when the search counted it, and so is every show the pipeline
\* collected as available.
C20_CandidatesActiveWithRemaining ==
  /\ \A i \in 1..Len(candidates.shows) :
       /\ active(candidates.shows[i].id)
       /\ candidates.shows[i].remaining_discounts > 0
  /\ \A p \in Procs : \A s \in avail[p] : active(s)

\* C21 as stated: no_match exactly when no available show scores 70 or more;
\* single_match only for a show that scores 70 or more and exceeds the score
\* of every other available show by 15 or more.
IsMatchCall == call.fn = "match_scores"

NoMatchIffBelowThreshold ==
  (call.result.match_type = "no_match") <=> (\A s \in call.available : call.scores[s] < 70)

C21_SingleExceedsEveryCandidate ==
  IsMatchCall =>
    /\ NoMatchIffBelowThreshold
    /\ call.result.match_type \in {"no_match", "single_match", "multiple_matches"}
    /\ call.result.match_type = "single_match" =>
         /\ call.result.show \in call.available
         /\ call.scores[call.result.show] >= 70
         /\ \A t \in call.available \ {call.result.show} :
              call.scores[call.result.show] - call.scores[t] >= 15

\* C21 amended: the runner-up is the second among the shows that score 70 or
\* more. single_match exactly when one show scores 70 or more and either no
\* other does, or it scores 90 or more and exceeds each of the others that
\* score 70 or more by 15 or more; that show is the one returned; everything
\* else that is not no_match is multiple_matches.
ClearWinners(sc, av) ==
  {s \in av : /\ sc[s] >= 70
              /\ \A t \in av \ {s} : sc[t] >= 70 => (sc[s] >= 90 /\ sc[s] - sc[t] >= 15)}

C21_SingleOnlyClearWinner ==
  IsMatchCall =>
    /\ NoMatchIffBelowThreshold
    /\ call.result.match_type \in {"no_match", "single_match", "multiple_matches"}
    /\ (call.result.match_type = "single_match")
         <=> (ClearWinners(call.scores, call.available) # {})
    /\ call.result.match_type = "single_match"
         => ClearWinners(call.scores, call.available) = {call.result.show}
    /\ call.result.match_type # "single_match" => call.result.show = None

C21_Witness ==
  /\ IsMatchCall
  /\ call.result.match_type = "single_match"
  /\ \E t \in call.available \ {call.result.show} : call.scores[t] >= 70

IsEngineCall == call.fn \in {"generate_approval_email", "generate_rejection_email"}

\* C23: rendering a template never fails on a missing key: the call returns
\* a body, with the sentinel in the place of every field the context lacks.
C23_RenderNeverFailsOnMissingKey ==
  IsEngineCall =>
    /\ ~call.result.raised
    /\ call.result.produced
    /\ Len(call.result.body) = Len(_load_template([exists |-> call.exists,
                                                    text |-> call.template]))

IsTemplateCall ==
  call.fn \in {"generate_approval_email", "generate_rejection_email",
               "template_rejection_email", "send_payment_info_email"}

\* C24: a template name without a stored template falls back to a built-in
\* text: the call does not fail and still produces the email.
C24_UnknownTemplateFallsBack ==
  (IsTemplateCall /\ ~call.exists) =>
    (~call.result.raised /\ call.result.produced)

\* C25: listings are ordered by creation time descending with the id as
\* tie-break, so no two listings show the same pair of items in two orders.
SeenTies == {pr \in listing.seen : listing.created_at[pr[1]] = listing.created_at[pr[2]]}

C25_ListOrderTotalAndStable ==
  /\ \A pr \in listing.seen : <<pr[2], pr[1]>> \notin listing.seen
  /\ \/ \A pr \in SeenTies : pr[1] < pr[2]
     \/ \A pr \in SeenTies : pr[1] > pr[2]

Acknowledged(p) == Done(p) /\ outcome[p].status = "queued_for_supervision"

\* C26: what process_discount_request returns to the requester is an
\* acknowledgment with a tracking id: two requests for the same description
\* that differ in the member's standing or in the show's availability get the
\* same values but for the queue id; decision and reasoning do not depend on them.
C26_ResponseOnlyAcknowledges ==
  \A p, q \in Procs :
    (Acknowledged(p) /\ Acknowledged(q)
       /\ req[p].show_description = req[q].show_description) =>
      /\ outcome[p].decision = outcome[q].decision
      /\ outcome[p].reasoning = outcome[q].reasoning
      /\ outcome[p].status = outcome[q].status

MatchesNoActiveShow(d) == \A s \in ActiveShows : similarity(d, s) < MatchThreshold

\* C27: for an eligible member, a description that matches no active show is
\* answered with success = True and decision 'rejected'.
C27_NoActiveShowRejected ==
  (matcher.pc = "responded" /\ MatchesNoActiveShow(matcher.description)) =>
    (matcher.response.success /\ matcher.response.decision = "rejected")

\* every active show the description names has no discount left
NamesSoldOutShow(d, remaining) ==
  /\ \E s \in ActiveShows : similarity(d, s) >= PrefilterFuzzyThreshold
  /\ \A s \in ActiveShows :
       similarity(d, s) >= PrefilterFuzzyThreshold => remaining[s] = 0

\* C28: the prefilter rejects a request whose description names a show with
\* no remaining discounts, also for a registered member with an active
\* subscription and fees current.
C28_PrefilterRejectsSoldOut ==
  (call.fn = "validate_request"
     /\ call.user_email \in Registered
     /\ subscription_active(call.user_email) /\ monthly_fee_current(call.user_email)
     /\ NamesSoldOutShow(call.show_description, call.remaining)) =>
    (call.result.rejected /\ ~call.result.approved)

DecisionTypes == {"approved", "rejected", "needs_clarification"}

\* C30: the statistics of the queue count every item: the total equals the
\* number of items, the count of sent items is the number of items with
\* status sent, and the counts by decision type add up to the items of that
\* type; the approval rate is 0 when nothing was processed.
C30_StatsCountEveryItem ==
  /\ call.fn = "get_queue_stats" =>
       /\ call.result.total = Len(call.queue)
       /\ call.result.sent = CountStatus(call.queue, "sent")
       /\ call.result.approved_pending + call.result.rejected_pending
            = CountStatus(call.queue, "pending")
  /\ (call.fn = "get_supervision_stats" /\ call.total_processed = 0) =>
       call.result.agent_approval_rate = 0

\* C31: every item of the queue has one of the three decision types,
\* whichever pipeline and whichever path of it added the item.
C31_DecisionTypeClosed ==
  \A i \in 1..Len(queue) : queue[i].decision_type \in DecisionTypes

C31_Witness ==
  /\ \E i \in 1..Len(queue) :
       queue[i].decision_source = "template_no_match" /\ queue[i].decision_type = "rejected"
  /\ matcher.pc = "responded" /\ matcher.analysis = "not_found"
  /\ matcher.response = ErrorResponse

InGoodStanding(u) ==
  u \in Registered /\ subscription_active(u) /\ monthly_fee_current(u)

\* C32: the steps short-circuit: the candidate search runs only for a
\* request whose member passed the validation, and a show is reserved only
\* when the search gave a single match.
C32_StepsShortCircuit ==
  /\ \A p \in Procs :
       (pc[p] \in {"scan", "approval"} \/ scanned[p] # {}) =>
         _run_prefilter_validations(requests, req[p].user_email) = "ok"
  /\ \A p \in Procs :
       data[p].show_id # None =>
         _find_matching_shows(req[p].show_description, avail[p]).match_type = "single_match"
  /\ call.fn = "_build_decision_context" => InGoodStanding(call.user_email)

IsSyntaxCall == call.fn \in {"template.format", "send_payment_info_email"}

\* the template is written in the syntax of the stored templates
StoredSyntax(template) == \A i \in 1..Len(template) : template[i].kind = "single"

CompleteContext(template, context) ==
  \A i \in 1..Len(template) : template[i].key \in context

C34_ReleasedStaysReleased ==
  [][\A i \in 1..Len(queue) :
       (queue[i].status = "rejected" /\ queue[i].show_id # None)
         => queue'[i].status \notin ReservingStatuses]_vars

\* C35: for each member and show at most one item of the queue has status
\* pending, approved or sent, also when requests are processed concurrently.
C35_OneDiscountPerMemberShow ==
  \A i, j \in 1..Len(queue) :
    (/\ queue[i].user_email = queue[j].user_email
     /\ queue[i].show_id # None /\ queue[i].show_id = queue[j].show_id
     /\ queue[i].status \in ReservingStatuses
     /\ queue[j].status \in ReservingStatuses) => i = j

Unreviewed(item) == item.reviewed_at = FALSE /\ item.reviewed_by = "none"

ReviewedTogether(item) ==
  /\ item.status \in {"approved", "rejected"}
  /\ item.reviewed_at = TRUE
  /\ item.reviewed_by \in Reviewers
  /\ item.supervisor_notes = "notes"

C37_AtMostOneDelivery == \A id \in RequestIds : delivered[id] <= 1

\* C38: a call of approve_and_send_email that the email service answers with
\* sent = False returns failure and leaves the discount requests as they
\* were (email_sent, status, human_reviewed and the reviewer fields), so the
\* request can still be sent.
C38_FailedSendLeavesRequest ==
  [][\A v \in Sups :
       (sending[v] # 0 /\ sending'[v] = 0 /\ ~lastOp'.ok)
         => /\ requests' = requests
            /\ delivered' = delivered
            /\ lastOp'.op = "approve_and_send_email" /\ lastOp'.id = sending[v]]_vars

\* a send has failed on a request that nobody has sent: it is still pending,
\* unsent and unreviewed, and no supervisor is in the middle of a send
C38_Witness ==
  /\ lastOp.op = "approve_and_send_email" /\ ~lastOp.ok
  /\ lastOp.id \in 1..Len(requests)
  /\ \A v \in Sups : sending[v] = 0
  /\ LET row == requests[lastOp.id] IN
       /\ ~row.email_sent /\ row.status = "pending"
       /\ ~row.human_reviewed /\ row.human_reviewer = "none"
       /\ FinalEmailContent(row) # "none"
       /\ delivered[lastOp.id] = 0

IsPaging == call.fn = "get_filtered_items"

PagingMatches == MatchingRows(call.status, call.filter)

\* the least number of pages of page_size rows that hold total rows
CeilDiv(total, page_size) ==
  CHOOSE n \in 0..MaxItems :
    n * page_size >= total /\ (n = 0 \/ (n - 1) * page_size < total)

\* the number of places of pages 1..tp at which row i is listed
TimesListed(i, tp) ==
  Cardinality({pk \in (1..tp) \X (1..MaxItems) :
                 /\ pk[2] <= Len(call.pages[pk[1]].items)
                 /\ call.pages[pk[1]].items[pk[2]] = i})

PageMetadataRight ==
  IsPaging =>
    \A p \in PagingPages :
      call.pages[p].fetched =>
        LET r == call.pages[p]
            tp == CeilDiv(Cardinality(PagingMatches), call.page_size) IN
        /\ r.total = Cardinality(PagingMatches)
        /\ r.total_pages = tp
        /\ r.has_next = (p < tp)
        /\ r.has_prev = (p > 1)
        /\ Len(r.items) <= call.page_size
        /\ \A k \in 1..Len(r.items) : r.items[k] \in PagingMatches

\* C39: on an unchanging queue every page read has total = the number of
\* matching items, total_pages = ceil(total / page_size), has_next = (page <
\* total_pages), has_prev = (page > 1) and at most page_size items, and once
\* pages 1..total_pages are read they hold every matching item exactly once.
C39_PagesPartitionMatches ==
  /\ PageMetadataRight
  /\ IsPaging =>
       LET tp == CeilDiv(Cardinality(PagingMatches), call.page_size) IN
       (\A p \in 1..tp : call.pages[p].fetched)
         => \A i \in PagingMatches : TimesListed(i, tp) = 1

\* C40: is_valid_session(token) returns true only for a token that is a key
\* of active_sessions and whose expiry, 24 hours after its login, has not
\* passed; validating an expired token removes it; and a token is never
\* valid after a logout with it.
C40_SessionValidity ==
  [][sessions'.last.op = "is_valid_session" =>
       LET t == sessions'.last.token IN
       /\ sessions'.last.result =>
            /\ Expires(t) # 0
            /\ sessions.now <= Expires(t)
            /\ Expires(t) = sessions.created[t] + SessionTTL
            /\ t \in sessions.issued
            /\ t \notin sessions.logged_out
       /\ (Expires(t) # 0 /\ sessions.now > Expires(t)) =>
            /\ ~sessions'.last.result
            /\ sessions'.active_sessions[t] = 0]_vars

\* a token was refused after its logout, and another token was removed
\* because it had expired
C40_Witness ==
  /\ sessions.last.op = "is_valid_session" /\ ~sessions.last.result
  /\ sessions.last.token \in sessions.issued \cap sessions.logged_out
  /\ \E t \in sessions.issued \ sessions.logged_out :
       sessions.active_sessions[t] = 0

TypeOK ==
  /\ \A i \in 1..Len(queue) : queue[i].status \in Statuses
  /\ Len(queue) <= NumProcs + 1

====
